---- MODULE Spec2Model ----
(***************************************************************************)
(* The schedule page of src/script.js: the asynchronous schedule loader    *)
(* loadSchedule, the three triggers that invoke it (DOMContentLoaded, the   *)
(* dropdown's change event, the document's keydown event) and the display   *)
(* surface it writes (status region, schedule label, card container).       *)
(*                                                                         *)
(* One action is one event-loop turn.  loadSchedule suspends twice, at      *)
(* `await fetch(...)` and at `await response.json()`, so one invocation is  *)
(* a synchronous start, then the turn in which the fetch settles, then the  *)
(* turn in which the body parse settles.                                    *)
(*                                                                         *)
(* The file holds the script twice.  The model follows the first copy       *)
(* (lines 1-228); the second (lines 230-333) has the same loadSchedule and  *)
(* listeners, other names in the catalog, no icon and index * 0.1 as delay. *)
(***************************************************************************)
EXTENDS Integers, Sequences, FiniteSets, TLC

VARIABLES
    statusDiv,               \* innerHTML of #status
    scheduleContainer,       \* the cards of #scheduleContainer, in document order
    currentScheduleDisplay,  \* textContent of #currentSchedule
    scheduleSelect,          \* value of #scheduleSelect
    domLoaded,               \* DOMContentLoaded has been dispatched
    invoked,                 \* the number of loadSchedule invocations so far
    pending,                 \* the invocations suspended at an await, by number
    lastEvent,               \* history: the event dispatched last
    lastDone                 \* history: the invocation that completed last

vars == <<statusDiv, scheduleContainer, currentScheduleDisplay, scheduleSelect,
          domLoaded, invoked, pending, lastEvent, lastDone>>

display == <<statusDiv, currentScheduleDisplay, scheduleContainer>>

-----------------------------------------------------------------------------
(* Bounds *)

MaxLoads == 2

MaxLen == 3

-----------------------------------------------------------------------------
(* The catalog *)

Files == {"SathvikSchedule.json", "AadarshSchedule.json",
          "EthanSchedule.json", "HankSchedule.json"}

MappedKeys == {"1", "2", "3", "4"}

Keys == MappedKeys \cup {"5"}

Undefined == "undefined"

\* A lookup that maps every key to a file.
scheduleFilesAnyKey(key) ==
    CASE key = "1" -> "SathvikSchedule.json"
      [] key = "2" -> "AadarshSchedule.json"
      [] key = "3" -> "EthanSchedule.json"
      [] key = "4" -> "HankSchedule.json"
      [] OTHER -> "SathvikSchedule.json"

scheduleFiles(key) ==
    CASE key = "1" -> "SathvikSchedule.json"
      [] key = "2" -> "AadarshSchedule.json"
      [] key = "3" -> "EthanSchedule.json"
      [] key = "4" -> "HankSchedule.json"
      [] OTHER -> Undefined

scheduleNames(fileName) ==
    CASE fileName = "SathvikSchedule.json" -> "Sathvik"
      [] fileName = "AadarshSchedule.json" -> "Aadarsh"
      [] fileName = "EthanSchedule.json" -> "Ethan"
      [] fileName = "HankSchedule.json" -> "Hank"
      [] OTHER -> Undefined

-----------------------------------------------------------------------------
(* The resources a retrieval can deliver *)

StatusCodes == {200, 404, 500}

ok(status) == status >= 200 /\ status <= 299

Periods == {1, 2, 3}

\* A className whose conversion to a string throws: the parse of
\* {"toString": null, "valueOf": null} is an object with no callable
\* toString or valueOf.
Unprintable == "{toString: null, valueOf: null}"

ClassNames == {"Algebra", "Pottery", Unprintable}

Entry(period, className) ==
    [period |-> period,
     className |-> className,
     teacher |-> IF className = "Algebra" THEN "Rivera" ELSE "Okafor",
     roomNumber |-> IF className = "Algebra" THEN "101" ELSE "B12",
     subjectArea |-> IF className = "Algebra" THEN "Math" ELSE "Art"]

Entries == {Entry(p, c) : p \in Periods, c \in ClassNames}

\* What response.json() settles with: a rejection (the body is not JSON), a
\* JSON value that is no array, or one of the given arrays of entries.
BodiesOf(arrays) ==
    {[kind |-> k, items |-> <<>>] : k \in {"invalid", "object"}}
    \cup {[kind |-> "array", items |-> s] : s \in arrays}

\* Every array of at most MaxLen entries.
Arrays == UNION {[1..n -> Entries] : n \in 0..MaxLen}

\* The arrays the resources of the page deliver: one whose periods descend,
\* one with two entries of one period, one whose second card cannot be
\* built, and the empty one.
Resources ==
    {<<>>,
     <<Entry(2, "Pottery"), Entry(1, "Algebra")>>,
     <<Entry(1, "Pottery"), Entry(1, "Algebra")>>,
     <<Entry(1, "Algebra"), Entry(2, Unprintable)>>}

Bodies == BodiesOf(Resources)

-----------------------------------------------------------------------------
(* Helpers of the card *)

getSubjectIcon(subjectArea) ==
    CASE subjectArea = "Math" -> "fa-solid fa-calculator"
      [] subjectArea = "Technology" -> "fa-solid fa-laptop-code"
      [] subjectArea = "English" -> "fa-solid fa-book"
      [] subjectArea = "Science" -> "fa-solid fa-flask"
      [] subjectArea = "Health" -> "fa-solid fa-heart-pulse"
      [] subjectArea = "Physical Education" -> "fa-solid fa-person-running"
      [] subjectArea = "Social Studies" -> "fa-solid fa-landmark"
      [] subjectArea = "Financial Literacy" -> "fa-solid fa-chart-line"
      [] OTHER -> "fa-solid fa-book-open"

RECURSIVE fibLoop(_, _, _, _)
fibLoop(i, n, a, b) == IF i > n THEN b ELSE fibLoop(i + 1, n, b, a + b)

fib(n) == IF n <= 1 THEN n ELSE fibLoop(2, n, 0, 1)

\* In hundredths (0.05 is 5).
subjectWeights(subjectArea) ==
    CASE subjectArea = "Math" -> 5
      [] subjectArea = "Technology" -> 8
      [] subjectArea = "English" -> 12
      [] subjectArea = "Science" -> 15
      [] subjectArea = "Health" -> 7
      [] subjectArea = "Physical Education" -> 3
      [] subjectArea = "Social Studies" -> 10
      [] subjectArea = "Financial Literacy" -> 9
      [] OTHER -> 10

\* The delay in hundredths of a second.
calculateFibonacciDelay(index, period, subjectArea) ==
    LET fibValue == fib(index + 1) % 8
        periodWeight == (9 - period) * 2
        subjectWeight == subjectWeights(subjectArea)
        randomFactor == ((index * 7) % 3) * 2
    IN  (fibValue * 10) + periodWeight + subjectWeight + randomFactor

\* The conversion of a field to a string in the card's template throws.
ToStringThrows(value) == value = Unprintable

\* A card with the teacher and the room exchanged.
cardHTMLSwappingFields(inv, classItem, index) ==
    [inv |-> inv,
     delay |-> calculateFibonacciDelay(index, classItem.period, classItem.subjectArea),
     period |-> classItem.period,
     icon |-> getSubjectIcon(classItem.subjectArea),
     className |-> classItem.className,
     teacher |-> classItem.roomNumber,
     roomNumber |-> classItem.teacher,
     subjectArea |-> classItem.subjectArea]

\* The card one iteration of the forEach inserts; inv is history, the
\* invocation that inserted it.
cardHTML(inv, classItem, index) ==
    [inv |-> inv,
     delay |-> calculateFibonacciDelay(index, classItem.period, classItem.subjectArea),
     period |-> classItem.period,
     icon |-> getSubjectIcon(classItem.subjectArea),
     className |-> classItem.className,
     teacher |-> classItem.teacher,
     roomNumber |-> classItem.roomNumber,
     subjectArea |-> classItem.subjectArea]

-----------------------------------------------------------------------------
(* scheduleData.sort((a, b) => a.period - b.period): a stable sort *)

\* The comparator with its operands exchanged.
compareDescending(a, b) == b.period - a.period

compare(a, b) == a.period - b.period

\* An insertion that moves the new element before its equals.
RECURSIVE InsertBeforeEquals(_, _)
InsertBeforeEquals(s, x) ==
    IF s = <<>> THEN <<x>>
    ELSE IF (s[Len(s)].period - x.period) >= 0
         THEN Append(InsertBeforeEquals(SubSeq(s, 1, Len(s) - 1), x), s[Len(s)])
         ELSE Append(s, x)

RECURSIVE Insert(_, _)
Insert(s, x) ==
    IF s = <<>> THEN <<x>>
    ELSE IF compare(s[Len(s)], x) > 0
         THEN Append(Insert(SubSeq(s, 1, Len(s) - 1), x), s[Len(s)])
         ELSE Append(s, x)

RECURSIVE sort(_)
sort(s) ==
    IF s = <<>> THEN <<>>
    ELSE Insert(sort(SubSeq(s, 1, Len(s) - 1)), s[Len(s)])

\* The number of iterations of the forEach that complete: all of them, or
\* those before the first whose template throws.
Rendered(sorted) ==
    LET bad == {i \in 1..Len(sorted) : ToStringThrows(sorted[i].className)}
    IN  IF bad = {} THEN Len(sorted)
        ELSE (CHOOSE i \in bad : \A j \in bad : i <= j) - 1

forEach(inv, sorted) ==
    [i \in 1..Rendered(sorted) |-> cardHTML(inv, sorted[i], i - 1)]

-----------------------------------------------------------------------------
(* What the status region and the label show.  A text is a sequence of      *)
(* pieces; a number is interpolated as its decimal digits.                  *)

RECURSIVE NumberToString(_)
NumberToString(n) ==
    LET digit == <<"0", "1", "2", "3", "4", "5", "6", "7", "8", "9">>[(n % 10) + 1]
    IN  IF n < 10 THEN <<digit>> ELSE Append(NumberToString(n \div 10), digit)

Empty == [kind |-> "empty", detail |-> <<>>]

Loading == [kind |-> "loading", detail |-> <<>>]

ErrorAlert(message) == [kind |-> "error", detail |-> message]

ErrorLabel == "Error loading schedule"

ScheduleLabel(fileName) == scheduleNames(fileName) \o "'s Schedule"

\* A message that leaves the status code out.
StatusMessageWithoutCode(status) == <<"Failed to load schedule">>

\* new Error(`Failed to load schedule: ${response.status}`).message
StatusMessage(status) == <<"Failed to load schedule: ">> \o NumberToString(status)

\* The messages of the errors the platform throws (their wording is the
\* browser's).
NetworkMessage == <<"Failed to fetch">>

SyntaxMessage == <<"Unexpected token in JSON">>

NotAFunctionMessage == <<"scheduleData.sort is not a function">>

ToPrimitiveMessage == <<"Cannot convert object to primitive value">>

-----------------------------------------------------------------------------
(* The state machine *)

NoCall == [id |-> 0, fileName |-> "", via |-> "", alone |-> FALSE,
           afterError |-> FALSE, fetches |-> 0,
           result |-> "none", detail |-> <<>>, body |-> <<>>, emitted |-> 0]

Init ==
    /\ statusDiv = Empty
    /\ scheduleContainer = <<>>
    /\ currentScheduleDisplay = ""
    /\ scheduleSelect = "SathvikSchedule.json"
    /\ domLoaded = FALSE
    /\ invoked = 0
    /\ pending = <<>>
    /\ lastEvent = [type |-> "none", key |-> ""]
    /\ lastDone = NoCall

Outstanding == DOMAIN pending

\* A start that leaves the cards of the previous schedule in place.
loadScheduleKeepingCards(fileName, via) ==
    /\ invoked < MaxLoads
    /\ statusDiv' = Loading
    /\ invoked' = invoked + 1
    /\ pending' = [i \in DOMAIN pending \cup {invoked + 1} |->
                      IF i \in DOMAIN pending
                      THEN [pending[i] EXCEPT !.alone = FALSE]
                      ELSE [fileName |-> fileName, pc |-> "fetch", via |-> via,
                            alone |-> DOMAIN pending = {},
                            afterError |-> statusDiv.kind = "error",
                            fetches |-> 1]]
    /\ UNCHANGED <<scheduleContainer, currentScheduleDisplay, lastDone>>

\* loadSchedule up to its first await: the loading indicator, the cleared
\* container, the fetch issued.  In the history of the invocation: whether it
\* is the only one outstanding, whether it started from the error state, and
\* the number of fetches it has issued.
loadSchedule(fileName, via) ==
    /\ invoked < MaxLoads
    /\ statusDiv' = Loading
    /\ scheduleContainer' = <<>>
    /\ invoked' = invoked + 1
    /\ pending' = [i \in Outstanding \cup {invoked + 1} |->
                      IF i \in Outstanding
                      THEN [pending[i] EXCEPT !.alone = FALSE]
                      ELSE [fileName |-> fileName, pc |-> "fetch", via |-> via,
                            alone |-> Outstanding = {},
                            afterError |-> statusDiv.kind = "error",
                            fetches |-> 1]]
    /\ UNCHANGED <<currentScheduleDisplay, lastDone>>

\* An invocation is suspended at the await of `pc`.
At(i, pc) == i \in Outstanding /\ pending[i].pc = pc

\* The invocation returns (its promise settles); the history keeps what it did.
Return(i, result, detail, body, emitted) ==
    /\ pending' = [j \in Outstanding \ {i} |-> pending[j]]
    /\ lastDone' = [id |-> i, fileName |-> pending[i].fileName, via |-> pending[i].via,
                    alone |-> pending[i].alone, afterError |-> pending[i].afterError,
                    fetches |-> pending[i].fetches, result |-> result, detail |-> detail,
                    body |-> body, emitted |-> emitted]

\* A catch block that sets the label and leaves the status region.
CatchWithoutAlert(message) ==
    /\ currentScheduleDisplay' = ErrorLabel
    /\ UNCHANGED statusDiv

\* A catch block that shows the alert and leaves the label.
CatchWithoutLabel(message) ==
    /\ statusDiv' = ErrorAlert(message)
    /\ UNCHANGED currentScheduleDisplay

\* The catch block.
Catch(message) ==
    /\ statusDiv' = ErrorAlert(message)
    /\ currentScheduleDisplay' = ErrorLabel

DOMContentLoaded ==
    /\ ~domLoaded
    /\ domLoaded' = TRUE
    /\ loadSchedule("SathvikSchedule.json", "DOMContentLoaded")
    /\ lastEvent' = [type |-> "DOMContentLoaded", key |-> ""]
    /\ UNCHANGED scheduleSelect

\* The user picks another option of the dropdown.
Change(selectedFile) ==
    /\ selectedFile # scheduleSelect
    /\ scheduleSelect' = selectedFile
    /\ loadSchedule(selectedFile, "change")
    /\ lastEvent' = [type |-> "change", key |-> selectedFile]
    /\ UNCHANGED domLoaded

\* A keydown handler that gives the dropdown the key instead of the file.
KeyDownSelectingKey(key) ==
    /\ lastEvent' = [type |-> "keydown", key |-> key]
    /\ IF scheduleFiles(key) # Undefined
       THEN /\ scheduleSelect' = key
            /\ loadSchedule(scheduleFiles(key), "keydown")
            /\ UNCHANGED domLoaded
       ELSE UNCHANGED <<statusDiv, scheduleContainer, currentScheduleDisplay,
                        scheduleSelect, domLoaded, invoked, pending, lastDone>>

\* A keydown handler that leaves the dropdown as it is.
KeyDownWithoutSelect(key) ==
    /\ lastEvent' = [type |-> "keydown", key |-> key]
    /\ IF scheduleFiles(key) # Undefined
       THEN /\ loadSchedule(scheduleFiles(key), "keydown")
            /\ UNCHANGED <<scheduleSelect, domLoaded>>
       ELSE UNCHANGED <<statusDiv, scheduleContainer, currentScheduleDisplay,
                        scheduleSelect, domLoaded, invoked, pending, lastDone>>

KeyDown(key) ==
    /\ lastEvent' = [type |-> "keydown", key |-> key]
    /\ IF scheduleFiles(key) # Undefined
       THEN /\ scheduleSelect' = scheduleFiles(key)
            /\ loadSchedule(scheduleFiles(key), "keydown")
            /\ UNCHANGED domLoaded
       ELSE UNCHANGED <<statusDiv, scheduleContainer, currentScheduleDisplay,
                        scheduleSelect, domLoaded, invoked, pending, lastDone>>

\* A rejected fetch that is issued again.
FetchRejectedRetrying(i) ==
    /\ At(i, "fetch")
    /\ pending' = [pending EXCEPT ![i].fetches = @ + 1]
    /\ UNCHANGED <<statusDiv, scheduleContainer, currentScheduleDisplay, scheduleSelect,
                   domLoaded, invoked, lastEvent, lastDone>>

\* The fetch rejects (no response at all).
FetchRejected(i) ==
    /\ At(i, "fetch")
    /\ Catch(NetworkMessage)
    /\ Return(i, "rejected", NetworkMessage, <<>>, 0)
    /\ UNCHANGED <<scheduleContainer, scheduleSelect, domLoaded, invoked, lastEvent>>

\* The fetch resolves with a response.
FetchResponse(i, status) ==
    /\ At(i, "fetch")
    /\ IF ~ok(status)
       THEN /\ Catch(StatusMessage(status))
            /\ Return(i, "status", StatusMessage(status), <<>>, 0)
       ELSE /\ pending' = [pending EXCEPT ![i].pc = "json"]
            /\ UNCHANGED <<statusDiv, currentScheduleDisplay, lastDone>>
    /\ UNCHANGED <<scheduleContainer, scheduleSelect, domLoaded, invoked, lastEvent>>

\* A rejection of response.json() that escapes the try block.
JsonRejectedUncaught(i) ==
    /\ Return(i, "syntax", SyntaxMessage, <<>>, 0)
    /\ UNCHANGED <<statusDiv, currentScheduleDisplay, scheduleContainer>>

\* response.json() rejects: the body is not JSON.
JsonRejected(i) ==
    /\ Catch(SyntaxMessage)
    /\ Return(i, "syntax", SyntaxMessage, <<>>, 0)
    /\ UNCHANGED scheduleContainer

\* A ready state that leaves the status region as it is.
ReadyKeepingStatus(i) ==
    /\ currentScheduleDisplay' = ScheduleLabel(pending[i].fileName)
    /\ UNCHANGED statusDiv

\* A ready state only the invocation started last may write.
ReadyIfLatest(i) ==
    IF i = invoked
    THEN /\ statusDiv' = Empty
         /\ currentScheduleDisplay' = ScheduleLabel(pending[i].fileName)
    ELSE UNCHANGED <<statusDiv, currentScheduleDisplay>>

\* The ready state: the status region cleared, the label of the resource.
Ready(i) ==
    /\ statusDiv' = Empty
    /\ currentScheduleDisplay' = ScheduleLabel(pending[i].fileName)

\* response.json() settles; the rest of loadSchedule runs in the same turn.
JsonSettled(i, body) ==
    /\ At(i, "json")
    /\ CASE body.kind = "invalid" -> JsonRejected(i)
         [] body.kind = "object" ->
              /\ Catch(NotAFunctionMessage)
              /\ Return(i, "type", NotAFunctionMessage, <<>>, 0)
              /\ UNCHANGED scheduleContainer
         [] body.kind = "array" ->
              LET scheduleData == sort(body.items)
                  cards == forEach(i, scheduleData)
              IN  /\ scheduleContainer' = scheduleContainer \o cards
                  /\ IF Len(cards) = Len(scheduleData)
                     THEN /\ Ready(i)
                          /\ Return(i, "ok", <<>>, body.items, Len(cards))
                     ELSE /\ Catch(ToPrimitiveMessage)
                          /\ Return(i, "render", ToPrimitiveMessage, body.items,
                                    Len(cards))
    /\ UNCHANGED <<scheduleSelect, domLoaded, invoked, lastEvent>>

\* A timer that gives up on a fetch that has not settled.
Timeout(i) ==
    /\ At(i, "fetch")
    /\ Catch(<<"The operation timed out">>)
    /\ UNCHANGED <<scheduleContainer, scheduleSelect, domLoaded, invoked, pending,
                   lastEvent, lastDone>>

\* The turns of the page, and a timer on the fetches.
NextWithTimeout ==
    \/ DOMContentLoaded
    \/ \E selectedFile \in Files : Change(selectedFile)
    \/ \E key \in Keys : KeyDown(key)
    \/ \E i \in 1..MaxLoads : FetchRejected(i)
    \/ \E i \in 1..MaxLoads, status \in StatusCodes : FetchResponse(i, status)
    \/ \E i \in 1..MaxLoads, body \in Bodies : JsonSettled(i, body)
    \/ \E i \in 1..MaxLoads : Timeout(i)

Next ==
    \/ DOMContentLoaded
    \/ \E selectedFile \in Files : Change(selectedFile)
    \/ \E key \in Keys : KeyDown(key)
    \/ \E i \in 1..MaxLoads : FetchRejected(i)
    \/ \E i \in 1..MaxLoads, status \in StatusCodes : FetchResponse(i, status)
    \/ \E i \in 1..MaxLoads, body \in Bodies : JsonSettled(i, body)

Spec == Init /\ [][Next]_vars

\* The settlement of what invocation i awaits.
Settle(i) ==
    \/ FetchRejected(i)
    \/ \E status \in StatusCodes : FetchResponse(i, status)
    \/ \E body \in Bodies : JsonSettled(i, body)

\* The page when every fetch and every body read eventually settles.
LiveSpec == Spec /\ \A i \in 1..MaxLoads : WF_vars(Settle(i))

-----------------------------------------------------------------------------
(* One invocation's parse, sort and render, for every array of entries: the  *)
(* startup load with its fetch resolved (status 200), then the turn in which *)
(* response.json() settles.                                                  *)

SortInit ==
    /\ statusDiv = Loading
    /\ scheduleContainer = <<>>
    /\ currentScheduleDisplay = ""
    /\ scheduleSelect = "SathvikSchedule.json"
    /\ domLoaded = TRUE
    /\ invoked = 1
    /\ pending = <<[fileName |-> "SathvikSchedule.json", pc |-> "json",
                    via |-> "DOMContentLoaded", alone |-> TRUE,
                    afterError |-> FALSE, fetches |-> 1]>>
    /\ lastEvent = [type |-> "DOMContentLoaded", key |-> ""]
    /\ lastDone = NoCall

SortNext == \E body \in BodiesOf(Arrays) : JsonSettled(1, body)

SortSpec == SortInit /\ [][SortNext]_vars

-----------------------------------------------------------------------------
(* Vocabulary of the properties *)

\* needle occurs in text as a run of consecutive pieces.
Contains(text, needle) ==
    \E k \in 0..(Len(text) - Len(needle)) :
        \A j \in 1..Len(needle) : text[k + j] = needle[j]

\* The cards of the container that invocation inv inserted.
CardsOf(inv) ==
    LET mine(card) == card.inv = inv IN SelectSeq(scheduleContainer, mine)

\* The entry a card shows.
EntryOfCard(card) ==
    [period |-> card.period, className |-> card.className, teacher |-> card.teacher,
     roomNumber |-> card.roomNumber, subjectArea |-> card.subjectArea]

\* The status region, label and container an invocation that did `done`
\* leaves when no other invocation runs between its start and its end.
AloneDisplay(done) ==
    <<IF done.result = "ok" THEN Empty ELSE ErrorAlert(done.detail),
      IF done.result = "ok" THEN ScheduleLabel(done.fileName) ELSE ErrorLabel,
      forEach(done.id, sort(done.body))>>

-----------------------------------------------------------------------------
(* C1 *)

\* C1: in every reachable state all the cards of scheduleContainer were
\* inserted by one single loadSchedule invocation.
C1_OneInvocationPerContainer ==
    \A a, b \in 1..Len(scheduleContainer) :
        scheduleContainer[a].inv = scheduleContainer[b].inv

(* C2 *)

\* C2: once every invocation has completed, the status region, the label and
\* the container are what the invocation that completed last produces alone.
C2_LastWriteWins ==
    (invoked >= 2 /\ Outstanding = {}) => display = AloneDisplay(lastDone)

(* C3 *)

\* C3: the turn in which an invocation fails on a non-success status leaves
\* the error alert, the error label and an empty container.
C3_StatusFailureShowsNoEntry ==
    [][\A i \in 1..MaxLoads, status \in StatusCodes :
          (FetchResponse(i, status) /\ ~ok(status))
              => /\ statusDiv'.kind = "error"
                 /\ currentScheduleDisplay' = ErrorLabel
                 /\ scheduleContainer' = <<>>]_vars

(* C4 *)

\* C4: the cards one invocation inserted have non-decreasing period values.
C4_PeriodsNonDecreasing ==
    \A a, b \in 1..Len(scheduleContainer) :
        (a < b /\ scheduleContainer[a].inv = scheduleContainer[b].inv)
            => scheduleContainer[a].period <= scheduleContainer[b].period

\* A load whose source had the periods 3, 1, 2 has rendered its three cards.
C4_Witness ==
    /\ lastDone.result = "ok"
    /\ Len(lastDone.body) = 3
    /\ lastDone.body[1].period = 3
    /\ lastDone.body[2].period = 1
    /\ lastDone.body[3].period = 2
    /\ Len(CardsOf(lastDone.id)) = 3

(* C5 *)

\* C5: for every period, the cards of that period a successful load has
\* inserted show the source's entries of that period in the source's order.
C5_SortIsStable ==
    (lastDone.result = "ok" /\ Len(CardsOf(lastDone.id)) = lastDone.emitted)
        => \A p \in Periods :
              LET cardHasP(card) == card.period = p
                  entryHasP(entry) == entry.period = p
                  shown == SelectSeq(CardsOf(lastDone.id), cardHasP)
              IN  [k \in 1..Len(shown) |-> EntryOfCard(shown[k])]
                      = SelectSeq(lastDone.body, entryHasP)

\* A load whose source has two different entries of one period, with an entry
\* of a lower period between them, has rendered its three cards.
C5_Witness ==
    /\ lastDone.result = "ok"
    /\ Len(lastDone.body) = 3
    /\ lastDone.body[1].period = lastDone.body[3].period
    /\ lastDone.body[1].period > lastDone.body[2].period
    /\ lastDone.body[1] # lastDone.body[3]
    /\ Len(CardsOf(lastDone.id)) = 3

(* C6 *)

\* C6: a keydown whose key is none of "1".."4" changes neither the
\* container, the status region, the label, the dropdown nor the invocations.
C6_UnmappedKeyIsNoOp ==
    [][\A key \in Keys \ MappedKeys :
          KeyDown(key) => UNCHANGED <<scheduleContainer, statusDiv,
                                      currentScheduleDisplay, scheduleSelect,
                                      invoked, pending>>]_vars

\* An unmapped key was pressed while a load is outstanding.
C6_Witness ==
    /\ lastEvent.type = "keydown"
    /\ lastEvent.key \notin MappedKeys
    /\ Outstanding # {}

(* C7 *)

\* C7: a load started by a mapped key or by the dropdown, with no other load
\* outstanding then or started since, ends in the state its resource and its
\* retrieval outcome fix, whichever of the two started it: the display that
\* load produces alone and the dropdown on its resource.
C7_KeyAndDropdownAgree ==
    (/\ Outstanding = {}
     /\ lastDone.id = invoked
     /\ lastDone.alone
     /\ lastDone.via \in {"keydown", "change"})
        => /\ display = AloneDisplay(lastDone)
           /\ scheduleSelect = lastDone.fileName

\* A load started by a key other than the one of the initial selection has
\* run alone and rendered cards.
C7_Witness ==
    /\ Outstanding = {}
    /\ lastDone.id = invoked
    /\ lastDone.alone
    /\ lastDone.via = "keydown"
    /\ lastDone.fileName = "EthanSchedule.json"
    /\ lastDone.result = "ok"
    /\ lastDone.emitted = 2

(* C8 *)

\* The three decimal digits of a status code.
Decimal(status) ==
    LET digits == [d \in 0..9 |->
                     CASE d = 0 -> "0" [] d = 1 -> "1" [] d = 2 -> "2" [] d = 3 -> "3"
                       [] d = 4 -> "4" [] d = 5 -> "5" [] d = 6 -> "6" [] d = 7 -> "7"
                       [] d = 8 -> "8" [] d = 9 -> "9"]
    IN  <<digits[status \div 100], digits[(status \div 10) % 10], digits[status % 10]>>

\* C8: the turn in which a fetch resolves with a non-success status ends the
\* invocation and leaves an error alert whose text contains the status code.
C8_ErrorMessageHasStatus ==
    [][\A i \in 1..MaxLoads, status \in StatusCodes :
          (FetchResponse(i, status) /\ ~ok(status))
              => /\ i \notin DOMAIN pending'
                 /\ statusDiv'.kind = "error"
                 /\ Contains(statusDiv'.detail, Decimal(status))]_vars

\* The status region shows the error of a 404.
C8_Witness ==
    /\ lastDone.result = "status"
    /\ statusDiv.kind = "error"
    /\ Contains(statusDiv.detail, <<"4", "0", "4">>)

(* C9 *)

\* C9: the turn in which the body fails to parse ends the invocation with the
\* error alert, the error label and no card of that invocation; but for the
\* detail, the status region is the one a status failure leaves.
C9_ParseFailureLikeStatusFailure ==
    [][\A i \in 1..MaxLoads :
          JsonSettled(i, [kind |-> "invalid", items |-> <<>>])
              => /\ i \notin DOMAIN pending'
                 /\ statusDiv'.kind = "error"
                 /\ currentScheduleDisplay' = ErrorLabel
                 /\ scheduleContainer' = scheduleContainer
                 /\ \A k \in 1..Len(scheduleContainer') : scheduleContainer'[k].inv # i
                 /\ \A status \in StatusCodes :
                       [statusDiv' EXCEPT !.detail = <<>>]
                           = [ErrorAlert(StatusMessage(status)) EXCEPT !.detail = <<>>]]_vars

\* A load has ended on a body that is not JSON.
C9_Witness ==
    /\ lastDone.result = "syntax"
    /\ statusDiv = ErrorAlert(SyntaxMessage)
    /\ currentScheduleDisplay = ErrorLabel

(* C10 *)

\* C10: the turn in which the body parse settles inserts all the entries of
\* the parsed resource or none, and none when it ends in the error state.
C10_AllOrNothing ==
    [][\A i \in 1..MaxLoads, body \in Bodies :
          JsonSettled(i, body)
              => /\ \/ scheduleContainer' = scheduleContainer
                    \/ Len(scheduleContainer') = Len(scheduleContainer) + Len(body.items)
                 /\ statusDiv'.kind = "error"
                       => scheduleContainer' = scheduleContainer]_vars

(* C11 *)

\* C11: the turn of a mapped key press leaves the dropdown on
\* scheduleFiles[key] and starts exactly one load, of that same file.
C11_KeyPressSyncsDropdown ==
    [][\A key \in MappedKeys :
          KeyDown(key)
              => /\ scheduleSelect' = scheduleFiles(key)
                 /\ invoked' = invoked + 1
                 /\ DOMAIN pending' = DOMAIN pending \cup {invoked'}
                 /\ pending'[invoked'].fileName = scheduleSelect'
                 /\ pending'[invoked'].pc = "fetch"]_vars

\* Key "3" was pressed; its load is suspended at the fetch and the dropdown
\* shows Ethan's file.
C11_Witness ==
    /\ lastEvent = [type |-> "keydown", key |-> "3"]
    /\ invoked \in Outstanding
    /\ pending[invoked].via = "keydown"
    /\ pending[invoked].pc = "fetch"
    /\ pending[invoked].fileName = "EthanSchedule.json"
    /\ scheduleSelect = "EthanSchedule.json"

(* C12 *)

\* The file the last trigger asked for, when the last event was a trigger of
\* the dropdown or of a mapped key.
LastRequested ==
    IF lastEvent.type = "change" THEN lastEvent.key
    ELSE IF lastEvent.type = "keydown" THEN scheduleFiles(lastEvent.key)
    ELSE Undefined

\* C12: with no load outstanding, status region and label are those of the
\* invocation that completed last, whichever was requested last, and the
\* dropdown shows the file requested last.
C12_LastCompletedWins ==
    /\ (Outstanding = {} /\ lastDone.id # 0)
          => /\ statusDiv = AloneDisplay(lastDone)[1]
             /\ currentScheduleDisplay = AloneDisplay(lastDone)[2]
    /\ LastRequested # Undefined => scheduleSelect = LastRequested

\* No load is outstanding; the load that completed last was requested before
\* the most recent one; the label names its resource and the dropdown shows
\* the other, requested last.
C12_Witness ==
    /\ Outstanding = {}
    /\ lastDone.id # 0
    /\ lastDone.id < invoked
    /\ lastDone.result = "ok"
    /\ statusDiv = Empty
    /\ currentScheduleDisplay = ScheduleLabel(lastDone.fileName)
    /\ LastRequested # Undefined
    /\ scheduleSelect = LastRequested
    /\ scheduleSelect # lastDone.fileName

(* C13 *)

\* C13: the turn in which a trigger invokes loadSchedule leaves the loading
\* indicator in the status region and the container empty.
C13_StartShowsLoading ==
    [][invoked' # invoked
          => /\ statusDiv' = Loading
             /\ scheduleContainer' = <<>>]_vars

\* A load has just started over the two cards of the load before it.
C13_Witness ==
    /\ statusDiv = Loading
    /\ scheduleContainer = <<>>
    /\ Outstanding = {invoked}
    /\ pending[invoked].pc = "fetch"
    /\ pending[invoked].alone
    /\ lastDone.id = invoked - 1
    /\ lastDone.alone
    /\ lastDone.result = "ok"
    /\ lastDone.emitted = 2

(* C14 *)

\* C14: the status region changes only in a turn that starts an invocation
\* or settles what one awaits (no timer ends the loading state); a turn that
\* ends an invocation leaves the ready or the error state; and when every
\* fetch and body read eventually settles, every invocation eventually ends.
C14_NoTimeout ==
    /\ [][statusDiv' # statusDiv => (invoked' # invoked \/ pending' # pending)]_vars
    /\ [][\A i \in DOMAIN pending :
             i \notin DOMAIN pending' => statusDiv'.kind \in {"empty", "error"}]_vars
    /\ \A i \in 1..MaxLoads : (i \in DOMAIN pending) ~> (i \notin DOMAIN pending)

\* A fetch has resolved with a success status, the body is still being read
\* and the status region still shows the loading indicator.
C14_Witness ==
    /\ statusDiv = Loading
    /\ \E i \in Outstanding : pending[i].pc = "json"

(* C15 *)

\* The entries the cards of the container show, in order.
ShownEntries == [k \in 1..Len(scheduleContainer) |-> EntryOfCard(scheduleContainer[k])]

C16_OneFetchNoRetry ==
    /\ [](\A i \in DOMAIN pending : pending[i].fetches = 1)
    /\ [](lastDone.id # 0 => lastDone.fetches = 1)
    /\ [][\A i \in DOMAIN pending :
             (\/ FetchRejected(i)
              \/ \E status \in StatusCodes : FetchResponse(i, status) /\ ~ok(status)
              \/ JsonSettled(i, [kind |-> "invalid", items |-> <<>>]))
                 => /\ i \notin DOMAIN pending'
                    /\ statusDiv'.kind = "error"
                    /\ currentScheduleDisplay' = ErrorLabel
                    /\ scheduleContainer' = scheduleContainer]_vars
    /\ [][\A i \in 1..MaxLoads :
             (i <= invoked /\ i \notin DOMAIN pending) => i \notin DOMAIN pending']_vars

\* An invocation whose one fetch was rejected has ended in the error state.
C16_Witness ==
    /\ lastDone.result = "rejected"
    /\ lastDone.fetches = 1
    /\ lastDone.id \notin Outstanding
    /\ statusDiv = ErrorAlert(NetworkMessage)
    /\ currentScheduleDisplay = ErrorLabel

(* C17 *)

\* The periods of a sequence of entries or cards.
PeriodsOf(s) == [k \in 1..Len(s) |-> s[k].period]

\* C17: a successful load has inserted one card per entry of its resource:
\* as many cards as entries, every entry shown by as many cards as the
\* resource holds it, with its five fields, in non-decreasing period
\* order; the periods 3, 1, 2 are shown as 1, 2, 3.
C17_OneCardPerEntry ==
    lastDone.result = "ok"
        => LET cards == CardsOf(lastDone.id)
               shown == [k \in 1..Len(cards) |-> EntryOfCard(cards[k])]
           IN  /\ Len(cards) = Len(lastDone.body)
               /\ lastDone.emitted = Len(lastDone.body)
               /\ \A entry \in Entries :
                     Cardinality({k \in 1..Len(shown) : shown[k] = entry})
                         = Cardinality({k \in 1..Len(lastDone.body) : lastDone.body[k] = entry})
               /\ \A k \in 1..(Len(cards) - 1) : cards[k].period <= cards[k + 1].period
               /\ PeriodsOf(lastDone.body) = <<3, 1, 2>> => PeriodsOf(cards) = <<1, 2, 3>>

\* A resource with the periods 3, 1, 2 is shown as 1, 2, 3, and the first
\* card's delay is longer than the second's.
C17_Witness ==
    /\ lastDone.result = "ok"
    /\ PeriodsOf(lastDone.body) = <<3, 1, 2>>
    /\ PeriodsOf(scheduleContainer) = <<1, 2, 3>>
    /\ scheduleContainer[1].delay > scheduleContainer[2].delay

(* C18 *)

\* C18: once a load has been started, the status region shows the loading
\* indicator only while a load is outstanding; with none outstanding it is
\* empty or the error alert.
C18_LoadingOnlyWhileOutstanding ==
    (invoked >= 1 /\ Outstanding = {}) => statusDiv.kind \in {"empty", "error"}

\* Two loads overlapped and both have ended, the later one in the error
\* state.
C18_Witness ==
    /\ domLoaded
    /\ invoked = 2
    /\ Outstanding = {}
    /\ ~lastDone.alone
    /\ statusDiv.kind = "error"

(* C19 *)

\* C19: an error alert goes with the error label; an empty status region,
\* once a load has completed, goes with the label of the load that completed
\* last; the turn that starts a load leaves the label as it is.
C19_StatusAndLabelAgree ==
    /\ [](statusDiv.kind = "error" => currentScheduleDisplay = ErrorLabel)
    /\ []((statusDiv.kind = "empty" /\ lastDone.id # 0)
             => currentScheduleDisplay = scheduleNames(lastDone.fileName) \o "'s Schedule")
    /\ [][invoked' # invoked => currentScheduleDisplay' = currentScheduleDisplay]_vars

\* The loading indicator of a load for another file stands beside the stale
\* label of Hank's schedule.
C19_Witness ==
    /\ statusDiv = Loading
    /\ currentScheduleDisplay = "Hank's Schedule"
    /\ \A i \in Outstanding : pending[i].fileName # "HankSchedule.json"

====
